---- MODULE Spec2Model ----
(***************************************************************************)
(* Model of the heartbeat coalescing and dispatch engine of Eztracker.py:  *)
(* the per-file clock (EztrackerState.last_heartbeat), the emission policy *)
(* (append_heartbeat), the buffer and its flush (send_heartbeats) and the  *)
(* editor event handlers (EztrackerListener).                              *)
(*                                                                         *)
(* Time is the value of time.time(), in whole seconds.  The print and      *)
(* log_debug statements (among them the debug statement at lines 158-159)  *)
(* have no effect on the state and are not modelled.                       *)
(*                                                                         *)
(* Besides the program's own fields the state holds history variables      *)
(* that record what the program did: emitted (per file, how many           *)
(* heartbeats line 170 appended and the time of the latest), invocations   *)
(* (for every subprocess.run at line 224, the heartbeats its command       *)
(* carries), drained (the heartbeats that calls of send_heartbeats took    *)
(* out of the buffer, by id), seen (per file, the open/activate events     *)
(* handled so far, recorded under SpecOpenActivate) and, for the latest    *)
(* step alone: dialogs (its message_dialog calls), ran (the commands it    *)
(* passed to subprocess.run) and last_flush (its call of send_heartbeats,  *)
(* with the program state at entry and at return).                         *)
(***************************************************************************)
EXTENDS Integers, Sequences, FiniteSets, TLC

VARIABLES initialized, api_key, last_heartbeat, heartbeat_buffer, last_sent,
          clock, emitted, invocations, drained, seen, dialogs, ran, last_flush

vars == <<initialized, api_key, last_heartbeat, heartbeat_buffer, last_sent,
          clock, emitted, invocations, drained, seen, dialogs, ran, last_flush>>

----------------------------------------------------------------------------
(* Program constants *)

EXIT_CODE_CONFIG_PARSE_ERROR == 103
EXIT_CODE_API_KEY_ERROR == 104
heartbeat_frequency == 2
send_buffer_seconds == 30

(* Bounds of the model *)

MaxTime == 150
MaxEmitted == 3

(* Seconds that pass between two editor events, and while the delivery     *)
(* tool runs (between line 152 and line 239).                              *)
Deltas == {30, 120}
RunDelays == {0, 30}

----------------------------------------------------------------------------
(* Files and views *)

TrackedFiles == {"calc.fth", "notes.md"}
IgnoredFiles == {"", "COMMIT_EDITMSG", "term:bash", "-MiniBufExplorer-", "--NO NAME--"}
Files == TrackedFiles \cup IgnoredFiles

(* view.scope_name(0), split at blanks, each scope split at its first dot *)
scope_name(view) ==
    CASE view = "calc.fth" -> << <<"source", "Forth">> >>
      [] view = "notes.md" -> << <<"text", "html.markdown">> >>
      [] OTHER -> << >>

splitext(file_name) ==
    CASE file_name = "calc.fth" -> ".fth"
      [] file_name = "notes.md" -> ".md"
      [] OTHER -> ""

lower(s) == IF s = "Forth" THEN "forth" ELSE s

extension_map(extension) ==
    CASE extension = ".py" -> "python"
      [] extension = ".go" -> "go"
      [] extension = ".md" -> "markdown"
      [] extension = ".odin" -> "odin"
      [] OTHER -> ""

get_file_language(view) ==
    LET scopes == scope_name(view)
        src == {i \in 1..Len(scopes) : scopes[i][1] = "source"}
    IN  IF src # {}
        THEN scopes[CHOOSE i \in src : \A j \in src : i <= j][2]
        ELSE IF view # "" THEN extension_map(lower(splitext(view))) ELSE ""

ignore_patterns == {"COMMIT_EDITMSG$", "PULLREQ_EDITMSG$", "MERGE_MSG$", "TAG_EDITMSG$"}

re_search(pattern, file) ==
    \/ pattern = "COMMIT_EDITMSG$" /\ file = "COMMIT_EDITMSG"

startswith(file, prefix) == prefix = "term:" /\ file = "term:bash"

contains(file, part) == part = "MiniBufExplorer" /\ file = "-MiniBufExplorer-"

(* Variant of is_ignored_file without the test for "--NO NAME--". *)
is_ignored_file_misses_no_name(file) ==
    IF file = "" THEN TRUE
    ELSE IF \E pattern \in ignore_patterns : re_search(pattern, file) THEN TRUE
    ELSE startswith(file, "term:") \/ contains(file, "MiniBufExplorer")

is_ignored_file(file) ==
    IF file = "" THEN TRUE
    ELSE IF \E pattern \in ignore_patterns : re_search(pattern, file) THEN TRUE
    ELSE startswith(file, "term:") \/ contains(file, "MiniBufExplorer")
         \/ file = "--NO NAME--"

----------------------------------------------------------------------------
(* str(now) and float(hb["time"]) *)

str(x) == <<"str", x>>
float(s) == s[2]

----------------------------------------------------------------------------
(* The program state, as one record *)

State ==
    [initialized |-> initialized, api_key |-> api_key,
     last_heartbeat |-> last_heartbeat, heartbeat_buffer |-> heartbeat_buffer,
     last_sent |-> last_sent, clock |-> clock, emitted |-> emitted,
     invocations |-> invocations, drained |-> drained, dialogs |-> dialogs,
     ran |-> ran, last_flush |-> last_flush]

(* What a call of send_heartbeats can see and change *)
Snapshot(S) ==
    [initialized |-> S.initialized, last_heartbeat |-> S.last_heartbeat,
     heartbeat_buffer |-> S.heartbeat_buffer, last_sent |-> S.last_sent,
     clock |-> S.clock, invocations |-> Len(S.invocations),
     dialogs |-> Len(S.dialogs), ran |-> Len(S.ran)]

message_dialog(S, text) == [S EXCEPT !.dialogs = Append(@, text)]

----------------------------------------------------------------------------
(* EztrackerConfig.load: the configuration file either has no api_key     *)
(* line (NoLine) or sets api_key to the value of its line.                *)

NoLine == [has_api_key |-> FALSE, api_key |-> ""]
ConfigFiles ==
    {NoLine} \cup {[has_api_key |-> TRUE, api_key |-> v] : v \in {"", "secret"}}

config_load(S, cfg) ==
    LET S1 == IF cfg.has_api_key THEN [S EXCEPT !.api_key = cfg.api_key] ELSE S
    IN  IF S1.api_key = ""
        THEN message_dialog(S1, "API key not found")
        ELSE S1

load_returns(S, cfg) == config_load(S, cfg).api_key # ""

----------------------------------------------------------------------------
(* EztrackerState *)

get_last_heartbeat(S, file) ==
    IF file \in DOMAIN S.last_heartbeat
    THEN S.last_heartbeat[file]
    ELSE [last_activity_at_colon |-> 0, last_heartbeat_at |-> 0]

set_last_heartbeat(S, file, activity_at, heartbeat_at) ==
    [S EXCEPT !.last_heartbeat =
        [f \in DOMAIN @ \cup {file} |->
            IF f = file
            THEN [last_activity_at |-> activity_at, last_heartbeat_at |-> heartbeat_at]
            ELSE @[f]]]

----------------------------------------------------------------------------
(* send_heartbeats.  out is what the environment does to this call: is the *)
(* tool found (line 185), does subprocess.run raise, which code does the   *)
(* tool return, how long does it run.                                      *)

ReturnCodes == {0, 1, EXIT_CODE_CONFIG_PARSE_ERROR, EXIT_CODE_API_KEY_ERROR}

NotFound == [found |-> FALSE, raises |-> "", returncode |-> 0, delay |-> 0]

Outcomes ==
    {NotFound}
    \cup {[found |-> TRUE, raises |-> "", returncode |-> rc, delay |-> 0] :
            rc \in ReturnCodes}
    \cup {[found |-> TRUE, raises |-> "", returncode |-> 0, delay |-> dl] :
            dl \in RunDelays}
    \cup {[found |-> TRUE, raises |-> e, returncode |-> 0, delay |-> 0] :
            e \in {"FileNotFoundError", "Exception"}}

language_flag(language) ==
    IF lower(language) = "forth" THEN "--language" ELSE "--alternate-language"

language_key(language) ==
    IF lower(language) = "forth" THEN "language" ELSE "alternate_language"

extra_json(hb) ==
    [entity |-> hb.entity, timestamp |-> float(hb.time),
     is_write |-> hb.is_write, duration |-> hb.duration]
    @@ (language_key(hb.language) :> hb.language)

build_cmd(heartbeat, extra_heartbeats) ==
    [entity |-> heartbeat.entity,
     time |-> heartbeat.time,
     plugin |-> "{PLUGIN_NAME}/{VERSION}",
     duration |-> IF heartbeat.duration # 0
                  THEN <<"--duration", str(heartbeat.duration)>> ELSE << >>,
     write |-> heartbeat.is_write,
     language |-> IF heartbeat.language # ""
                  THEN <<language_flag(heartbeat.language), heartbeat.language>>
                  ELSE << >>,
     extra_heartbeats |->
        IF extra_heartbeats # << >>
        THEN <<"--extra-heartbeats",
               [i \in 1..Len(extra_heartbeats) |-> extra_json(extra_heartbeats[i])]>>
        ELSE << >>]

(* Variant of the classification in which the configuration parse error   *)
(* de-initializes the session as well.                                     *)
classify_parse_error_deinitializes(S, out) ==
    IF out.raises = "FileNotFoundError" THEN message_dialog(S, "CLI not found")
    ELSE IF out.raises # "" THEN message_dialog(S, "Error running CLI")
    ELSE IF out.returncode = EXIT_CODE_API_KEY_ERROR
         THEN [message_dialog(S, "Invalid API Key") EXCEPT !.initialized = FALSE]
    ELSE IF out.returncode = EXIT_CODE_CONFIG_PARSE_ERROR
         THEN [message_dialog(S, "CLI error") EXCEPT !.initialized = FALSE]
    ELSE S

(* subprocess.run and the classification of its result, lines 223-237 *)
classify(S, out) ==
    IF out.raises = "FileNotFoundError" THEN message_dialog(S, "CLI not found")
    ELSE IF out.raises # "" THEN message_dialog(S, "Error running CLI")
    ELSE IF out.returncode = EXIT_CODE_API_KEY_ERROR
         THEN [message_dialog(S, "Invalid API Key") EXCEPT !.initialized = FALSE]
    ELSE IF out.returncode = EXIT_CODE_CONFIG_PARSE_ERROR
         THEN message_dialog(S, "CLI error")
    ELSE S

(* lines 198-239: the invocation of the delivery tool *)
carried(heartbeat, extra_heartbeats) ==
    <<heartbeat.id>> \o [i \in 1..Len(extra_heartbeats) |-> extra_heartbeats[i].id]

run_cli(S, heartbeat, extra_heartbeats, out) ==
    LET cmd == build_cmd(heartbeat, extra_heartbeats)
        S1 == [S EXCEPT !.ran = Append(@, cmd),
                        !.invocations = Append(@, carried(heartbeat, extra_heartbeats)),
                        !.clock = @ + out.delay]
        S2 == classify(S1, out)
    IN  [S2 EXCEPT !.last_sent = S2.clock]

(* Variants of send_heartbeats that the properties below tell apart from  *)
(* the code: one that keeps the batch when the tool is not found, one that *)
(* runs the tool for a primary of duration 0, one that reports a tool that *)
(* is not found, one that puts the batch back when the run raises, and one *)
(* that takes the newest heartbeat as primary.                             *)
send_body_keeps_unresolvable(S, out) ==
    IF S.heartbeat_buffer = << >>
    THEN [S EXCEPT !.last_sent = S.clock]
    ELSE IF ~out.found
    THEN S
    ELSE LET heartbeat == Head(S.heartbeat_buffer)
             extra_heartbeats == Tail(S.heartbeat_buffer)
             S1 == [S EXCEPT !.heartbeat_buffer = << >>]
         IN  IF heartbeat.duration = 0
             THEN S1
             ELSE run_cli(S1, heartbeat, extra_heartbeats, out)

send_body_sends_zero(S, out) ==
    IF S.heartbeat_buffer = << >>
    THEN [S EXCEPT !.last_sent = S.clock]
    ELSE IF ~out.found
    THEN [S EXCEPT !.heartbeat_buffer = << >>]
    ELSE LET heartbeat == Head(S.heartbeat_buffer)
             extra_heartbeats == Tail(S.heartbeat_buffer)
             S1 == [S EXCEPT !.heartbeat_buffer = << >>]
         IN  run_cli(S1, heartbeat, extra_heartbeats, out)

send_body_reports_unresolvable(S, out) ==
    IF S.heartbeat_buffer = << >>
    THEN [S EXCEPT !.last_sent = S.clock]
    ELSE IF ~out.found
    THEN message_dialog([S EXCEPT !.heartbeat_buffer = << >>], "CLI not found")
    ELSE LET heartbeat == Head(S.heartbeat_buffer)
             extra_heartbeats == Tail(S.heartbeat_buffer)
             S1 == [S EXCEPT !.heartbeat_buffer = << >>]
         IN  IF heartbeat.duration = 0
             THEN S1
             ELSE run_cli(S1, heartbeat, extra_heartbeats, out)

send_body_requeues(S, out) ==
    IF S.heartbeat_buffer = << >>
    THEN [S EXCEPT !.last_sent = S.clock]
    ELSE IF ~out.found
    THEN [S EXCEPT !.heartbeat_buffer = << >>]
    ELSE LET heartbeat == Head(S.heartbeat_buffer)
             extra_heartbeats == Tail(S.heartbeat_buffer)
             S1 == [S EXCEPT !.heartbeat_buffer = << >>]
         IN  IF heartbeat.duration = 0
             THEN S1
             ELSE LET T == run_cli(S1, heartbeat, extra_heartbeats, out)
                  IN  IF out.raises # ""
                      THEN [T EXCEPT !.heartbeat_buffer = S.heartbeat_buffer]
                      ELSE T

send_body_newest_first(S, out) ==
    IF S.heartbeat_buffer = << >>
    THEN [S EXCEPT !.last_sent = S.clock]
    ELSE IF ~out.found
    THEN [S EXCEPT !.heartbeat_buffer = << >>]
    ELSE LET n == Len(S.heartbeat_buffer)
             heartbeat == S.heartbeat_buffer[n]
             extra_heartbeats == SubSeq(S.heartbeat_buffer, 1, n - 1)
             S1 == [S EXCEPT !.heartbeat_buffer = << >>]
         IN  IF heartbeat.duration = 0
             THEN S1
             ELSE run_cli(S1, heartbeat, extra_heartbeats, out)

send_body(S, out) ==
    IF S.heartbeat_buffer = << >>
    THEN [S EXCEPT !.last_sent = S.clock]
    ELSE IF ~out.found
    THEN [S EXCEPT !.heartbeat_buffer = << >>]
    ELSE LET heartbeat == Head(S.heartbeat_buffer)
             extra_heartbeats == Tail(S.heartbeat_buffer)
             S1 == [S EXCEPT !.heartbeat_buffer = << >>]
         IN  IF heartbeat.duration = 0
             THEN S1
             ELSE run_cli(S1, heartbeat, extra_heartbeats, out)

(* The case a call of send_heartbeats is in, by the state at its entry    *)
(* and the environment's answer.                                          *)
flush_case(S, out) ==
    IF S.heartbeat_buffer = << >> THEN "empty"
    ELSE IF ~out.found THEN "unresolvable"
    ELSE IF Head(S.heartbeat_buffer).duration = 0 THEN "zero"
    ELSE "invoked"

NoFlush == [case |-> "none"]

Elements(seq) == {seq[i] : i \in 1..Len(seq)}

(* send_heartbeats, with the record of the call *)
send_heartbeats(S, out) ==
    LET T == send_body(S, out)
        case == flush_case(S, out)
    IN  [T EXCEPT
           !.drained = @ \cup {h.id : h \in Elements(S.heartbeat_buffer)
                                                \ Elements(T.heartbeat_buffer)},
           !.last_flush =
              [case |-> case,
               out |-> IF case = "invoked" THEN out ELSE NotFound,
               before |-> Snapshot(S), after |-> Snapshot(T)]]

----------------------------------------------------------------------------
(* append_heartbeat *)

(* Variants of the debounce test: the comparison made inclusive, and the  *)
(* test for a write left out.                                              *)
enough_time_passed_inclusive(now, last) ==
    (now - last.last_heartbeat_at) >= heartbeat_frequency * 60

enough_time_passed(now, last) ==
    (now - last.last_heartbeat_at) > heartbeat_frequency * 60

should_emit_ignores_write(S, file, is_write, now) ==
    \/ enough_time_passed(now, get_last_heartbeat(S, file))
    \/ file \notin DOMAIN S.last_heartbeat

should_emit(S, file, is_write, now) ==
    \/ is_write
    \/ enough_time_passed(now, get_last_heartbeat(S, file))
    \/ file \notin DOMAIN S.last_heartbeat

duration_of(S, file, now) ==
    IF file \in DOMAIN S.last_heartbeat
    THEN now - get_last_heartbeat(S, file).last_heartbeat_at
    ELSE 0

emitted_count(S) ==
    LET RECURSIVE sum(_)
        sum(fs) == IF fs = {} THEN 0
                   ELSE LET f == CHOOSE x \in fs : TRUE
                        IN  S.emitted[f].count + sum(fs \ {f})
    IN  sum(DOMAIN S.emitted)

(* Variant of the emission that records the activity but keeps the        *)
(* file's previous last_heartbeat_at.                                      *)
emit_keeps_heartbeat_at(S, view, file, is_write, now) ==
    LET heartbeat == [id |-> emitted_count(S) + 1,
                      entity |-> file,
                      time |-> str(now),
                      is_write |-> is_write,
                      duration |-> duration_of(S, file, now),
                      language |-> get_file_language(view)]
        S1 == [S EXCEPT !.heartbeat_buffer = Append(@, heartbeat),
                        !.emitted[file] = [count |-> @.count + 1, time |-> now]]
    IN  set_last_heartbeat(S1, file, now,
                           get_last_heartbeat(S, file).last_heartbeat_at)

emit(S, view, file, is_write, now) ==
    LET heartbeat == [id |-> emitted_count(S) + 1,
                      entity |-> file,
                      time |-> str(now),
                      is_write |-> is_write,
                      duration |-> duration_of(S, file, now),
                      language |-> get_file_language(view)]
        S1 == [S EXCEPT !.heartbeat_buffer = Append(@, heartbeat),
                        !.emitted[file] = [count |-> @.count + 1, time |-> now]]
    IN  set_last_heartbeat(S1, file, now, now)

(* Variant of the flush test with the comparison made inclusive. *)
flush_due_inclusive(S, now) ==
    now - S.last_sent >= send_buffer_seconds /\ S.heartbeat_buffer # << >>

flush_due(S, now) ==
    now - S.last_sent > send_buffer_seconds /\ S.heartbeat_buffer # << >>

(* Variant of append_heartbeat that makes the flush check before it       *)
(* appends.                                                                *)
append_heartbeat_checks_first(S, view, is_write, out) ==
    LET file == view
        now == S.clock
    IN  IF file = "" \/ is_ignored_file(file)
        THEN S
        ELSE LET S1 == IF flush_due(S, now) THEN send_heartbeats(S, out) ELSE S
             IN  IF should_emit(S1, file, is_write, now)
                 THEN emit(S1, view, file, is_write, now)
                 ELSE S1

append_heartbeat(S, view, is_write, out) ==
    LET file == view
        now == S.clock
    IN  IF file = "" \/ is_ignored_file(file)
        THEN S
        ELSE LET S1 == IF should_emit(S, file, is_write, now)
                       THEN emit(S, view, file, is_write, now)
                       ELSE S
             IN  IF flush_due(S1, now) THEN send_heartbeats(S1, out) ELSE S1

----------------------------------------------------------------------------
(* The editor events.  A view is identified by its file name ("" for a    *)
(* view without one).                                                     *)

(* The views that on_modified is drawn for, and the lists of views that   *)
(* on_init is drawn for.                                                  *)
ModifiedViews == IgnoredFiles \cup {"notes.md"}

InitViews ==
    {<< >>} \cup {<<f>> : f \in Files}
    \cup {<<"calc.fth", "notes.md">>}

OutcomeLists(n) == [1..n -> Outcomes]

tick(S, d) == [S EXCEPT !.clock = @ + d]

Bounded(S) ==
    /\ S.clock <= MaxTime
    /\ emitted_count(S) <= MaxEmitted

Install(S) ==
    /\ initialized' = S.initialized
    /\ api_key' = S.api_key
    /\ last_heartbeat' = S.last_heartbeat
    /\ heartbeat_buffer' = S.heartbeat_buffer
    /\ last_sent' = S.last_sent
    /\ clock' = S.clock
    /\ emitted' = S.emitted
    /\ invocations' = S.invocations
    /\ drained' = S.drained
    /\ dialogs' = S.dialogs
    /\ ran' = S.ran
    /\ last_flush' = S.last_flush

(* seen[f]: first and last time of the open/activate events handled for f, *)
(* steady while these are the only events handled for f and no two         *)
(* consecutive ones are more than the debounce interval apart.             *)
Unseen == [first |-> -1, last |-> -1, steady |-> TRUE]
Unsteady == [first |-> -1, last |-> -1, steady |-> FALSE]

Observe(f, now) ==
    IF ~seen[f].steady THEN Unsteady
    ELSE IF seen[f].first = -1 THEN [first |-> now, last |-> now, steady |-> TRUE]
    ELSE IF now - seen[f].last <= heartbeat_frequency * 60
         THEN [seen[f] EXCEPT !.last = now]
    ELSE Unsteady

Handled(S, view) == S.initialized /\ view \in TrackedFiles

RECURSIVE for_views(_, _, _)
for_views(S, views, outs) ==
    IF views = << >> THEN S
    ELSE for_views(append_heartbeat(S, Head(views), FALSE, Head(outs)),
                   Tail(views), Tail(outs))

on_init(S, views, cfg, outs) ==
    IF ~S.initialized
    THEN LET S1 == config_load(S, cfg)
             S2 == IF load_returns(S, cfg)
                   THEN [S1 EXCEPT !.initialized = TRUE] ELSE S1
         IN  for_views(S2, views, outs)
    ELSE S

on_load(S, view, out) ==
    IF S.initialized THEN append_heartbeat(S, view, FALSE, out) ELSE S

on_activated(S, view, out) ==
    IF S.initialized THEN append_heartbeat(S, view, FALSE, out) ELSE S

(* Variants of on_modified: one that also moves last_heartbeat_at to the   *)
(* event time, and one that updates only a record that exists.             *)
on_modified_resets_heartbeat(S, view) ==
    IF S.initialized
    THEN LET file == view
         IN  IF file # "" /\ ~is_ignored_file(file)
             THEN set_last_heartbeat(S, file, S.clock, S.clock)
             ELSE S
    ELSE S

on_modified_skips_unknown(S, view) ==
    IF S.initialized
    THEN LET file == view
         IN  IF file # "" /\ ~is_ignored_file(file) /\ file \in DOMAIN S.last_heartbeat
             THEN set_last_heartbeat(S, file, S.clock,
                                     get_last_heartbeat(S, file).last_heartbeat_at)
             ELSE S
    ELSE S

on_modified(S, view) ==
    IF S.initialized
    THEN LET file == view
         IN  IF file # "" /\ ~is_ignored_file(file)
             THEN set_last_heartbeat(S, file, S.clock,
                                     get_last_heartbeat(S, file).last_heartbeat_at)
             ELSE S
    ELSE S

on_text_command(S, view, command_name, out) ==
    IF S.initialized /\ command_name = "save"
    THEN append_heartbeat(S, view, TRUE, out)
    ELSE S

(* The outcomes worth drawing for one call of append_heartbeat: the        *)
(* environment's answer is consulted only by a call that flushes.         *)
Flushes(S, view, is_write) ==
    append_heartbeat([S EXCEPT !.last_flush = NoFlush], view, is_write, NotFound).last_flush
        # NoFlush

OutcomesFor(S, view, is_write) ==
    IF S.initialized /\ Flushes(S, view, is_write) THEN Outcomes ELSE {NotFound}

RECURSIVE Consulted(_, _, _)
Consulted(S, views, outs) ==
    \/ views = << >>
    \/ /\ Flushes(S, Head(views), FALSE) \/ Head(outs) = NotFound
       /\ Consulted(append_heartbeat(S, Head(views), FALSE, Head(outs)),
                    Tail(views), Tail(outs))

OutcomeListsFor(S, views, cfg) ==
    IF S.initialized THEN {[i \in 1..Len(views) |-> NotFound]}
    ELSE {outs \in OutcomeLists(Len(views)) :
            Consulted(on_init(S, << >>, cfg, << >>), views, outs)}

(* The state a handler starts in: last_flush and dialogs describe the     *)
(* latest step alone.                                                     *)
Entry == [State EXCEPT !.last_flush = NoFlush, !.dialogs = << >>, !.ran = << >>]

Step(T) == Bounded(T) /\ Install(T)

OnInit(views, cfg, outs) == Step(on_init(Entry, views, cfg, outs)) /\ seen' = seen

OnLoad(view, out) == Step(on_load(Entry, view, out)) /\ seen' = seen

OnActivated(view, out) == Step(on_activated(Entry, view, out)) /\ seen' = seen

OnModified(view) == Step(on_modified(Entry, view)) /\ seen' = seen

CommandNames == {"save", "copy"}

OnTextCommand(view, command_name, out) ==
    Step(on_text_command(Entry, view, command_name, out)) /\ seen' = seen

(* Time passes between two editor events: time.time() grows by d. *)
Tick(d) == Step(tick(Entry, d)) /\ seen' = seen

----------------------------------------------------------------------------
(* state = EztrackerState(), lines 77-95 *)

Init ==
    /\ clock = 0
    /\ initialized = FALSE
    /\ api_key = ""
    /\ last_heartbeat = << >>
    /\ heartbeat_buffer = << >>
    /\ last_sent = clock
    /\ emitted = [f \in TrackedFiles |-> [count |-> 0, time |-> 0]]
    /\ invocations = << >>
    /\ drained = {}
    /\ dialogs = << >>
    /\ ran = << >>
    /\ last_flush = NoFlush
    /\ seen = [f \in TrackedFiles |-> Unseen]

Next ==
    \/ \E views \in InitViews, cfg \in ConfigFiles :
         \E outs \in OutcomeListsFor(Entry, views, cfg) : OnInit(views, cfg, outs)
    \/ \E view \in Files : \E out \in OutcomesFor(Entry, view, FALSE) :
         OnLoad(view, out)
    \/ \E view \in Files : \E out \in OutcomesFor(Entry, view, FALSE) :
         OnActivated(view, out)
    \/ \E view \in ModifiedViews : OnModified(view)
    \/ \E view \in Files, command_name \in CommandNames :
         \E out \in OutcomesFor(Entry, view, command_name = "save") :
            OnTextCommand(view, command_name, out)
    \/ \E d \in Deltas : Tick(d)

Spec == Init /\ [][Next]_vars

----------------------------------------------------------------------------
(* A session in which the only editor events are on_init, on_load and     *)
(* on_activated, with seen recording the open/activate events handled.    *)

Opened(view, out) ==
    /\ Step(on_load(Entry, view, out))
    /\ seen' = [f \in TrackedFiles |->
                  IF f = view /\ Handled(State, view)
                  THEN Observe(f, clock) ELSE seen[f]]

Activated(view, out) ==
    /\ Step(on_activated(Entry, view, out))
    /\ seen' = [f \in TrackedFiles |->
                  IF f = view /\ Handled(State, view)
                  THEN Observe(f, clock) ELSE seen[f]]

Started(views, cfg, outs) ==
    /\ Step(on_init(Entry, views, cfg, outs))
    /\ seen' = [f \in TrackedFiles |->
                  IF ~initialized /\ \E i \in 1..Len(views) : views[i] = f
                  THEN Unsteady ELSE seen[f]]

NextOpenActivate ==
    \/ \E views \in InitViews, cfg \in ConfigFiles :
         \E outs \in OutcomeListsFor(Entry, views, cfg) : Started(views, cfg, outs)
    \/ \E view \in Files : \E out \in OutcomesFor(Entry, view, FALSE) :
         Opened(view, out)
    \/ \E view \in Files : \E out \in OutcomesFor(Entry, view, FALSE) :
         Activated(view, out)
    \/ \E d \in Deltas : Tick(d)

SpecOpenActivate == Init /\ [][NextOpenActivate]_vars

(* The session in which time keeps passing and modify events keep coming, *)
(* while open, activate and save events may stop: nothing in the code      *)
(* runs without an editor event.                                           *)
TimePasses == \E d \in Deltas : Tick(d)

Modified == \E view \in ModifiedViews : OnModified(view)

FairSpec == Init /\ [][Next]_vars /\ WF_vars(TimePasses) /\ WF_vars(Modified)

----------------------------------------------------------------------------
(* Properties *)

Debounce == heartbeat_frequency * 60

(* The buffer of the latest step as append_heartbeat left it before it    *)
(* called send_heartbeats, and the ids of the heartbeats in a sequence.   *)
Appended ==
    IF last_flush.case = "none" THEN heartbeat_buffer
    ELSE last_flush.before.heartbeat_buffer

Ids(seq) == [i \in 1..Len(seq) |-> seq[i].id]

Flatten(seqs) ==
    LET RECURSIVE cat(_)
        cat(n) == IF n = 0 THEN << >> ELSE cat(n - 1) \o seqs[n]
    IN  cat(Len(seqs))

(* C1, as stated: open/activate events only on a file, every gap between  *)
(* consecutive events at most the debounce interval: exactly one heartbeat *)
(* was emitted for the file, at the time of the first event.               *)
C1_OneHeartbeatWhileGapsSmall ==
    \A f \in TrackedFiles :
        (seen[f].steady /\ seen[f].first >= 0)
            => (emitted[f].count = 1 /\ emitted[f].time = seen[f].first)

(* C1, amended: open/activate events only on a file, every event at most  *)
(* the debounce interval after the first one: exactly one heartbeat was    *)
(* emitted for the file, at the time of the first event.                   *)
C1_OneHeartbeatWithinDebounceOfFirst ==
    \A f \in TrackedFiles :
        (seen[f].steady /\ seen[f].first >= 0
         /\ seen[f].last - seen[f].first <= Debounce)
            => (emitted[f].count = 1 /\ emitted[f].time = seen[f].first)

C1_Witness ==
    \E f \in TrackedFiles :
        /\ seen[f].steady
        /\ seen[f].first >= 0
        /\ seen[f].last - seen[f].first = Debounce
        /\ emitted[f].count = 1

(* C2: in every reachable state of an initialized session, a save event   *)
(* on a tracked file appends exactly one heartbeat, with is_write true,    *)
(* for that file and the event time, and sets the file's last_heartbeat_at *)
(* to the event time, whatever the time since the file's previous          *)
(* heartbeat.  AppendedBy(T) is the buffer as the event left it before any *)
(* flush.  OutcomesFor is the set of answers of the environment that the   *)
(* call can meet: all of them when it calls send_heartbeats.               *)
AppendedBy(T) ==
    IF T.last_flush.case = "none" THEN T.heartbeat_buffer
    ELSE T.last_flush.before.heartbeat_buffer

C2_SaveAlwaysEmits ==
    \A view \in TrackedFiles :
        initialized =>
            \A out \in OutcomesFor(Entry, view, TRUE) :
            \A T \in {on_text_command(Entry, view, "save", out)} :
            \A B \in {AppendedBy(T)} :
                /\ T.emitted[view].count = emitted[view].count + 1
                /\ \A f \in TrackedFiles \ {view} : T.emitted[f] = emitted[f]
                /\ Len(B) = Len(heartbeat_buffer) + 1
                /\ SubSeq(B, 1, Len(heartbeat_buffer)) = heartbeat_buffer
                /\ B[Len(B)].is_write
                /\ B[Len(B)].entity = view
                /\ B[Len(B)].time = str(clock)
                /\ view \in DOMAIN T.last_heartbeat
                /\ T.last_heartbeat[view].last_heartbeat_at = clock

(* a save at the very time of the file's previous heartbeat *)
C2_Witness ==
    \E f \in TrackedFiles :
        /\ emitted[f].count >= 2
        /\ Appended # << >>
        /\ Appended[Len(Appended)].entity = f
        /\ Appended[Len(Appended)].is_write
        /\ Appended[Len(Appended)].duration = 0
        /\ last_heartbeat[f].last_heartbeat_at = clock

(* C3: every heartbeat a step emits has duration 0 when it is the first   *)
(* heartbeat emitted for its entity, and otherwise the event time minus    *)
(* the time of the previous heartbeat emitted for the entity.  Visible is  *)
(* the set of heartbeats the latest step left in or took out of the buffer.*)
Visible ==
    Elements(heartbeat_buffer)
    \cup (IF last_flush.case = "none" THEN {}
          ELSE Elements(last_flush.before.heartbeat_buffer))

C3_DurationSincePreviousHeartbeat ==
    [][\A h \in Visible' :
          h.id > emitted_count(State)
          => h.duration = IF emitted[h.entity].count = 0 THEN 0
                          ELSE float(h.time) - emitted[h.entity].time]_vars

(* C4: every call of send_heartbeats returns with the buffer empty: the    *)
(* call the latest step made, and a call made in any reachable state with  *)
(* any answer of the environment.                                          *)
C4_FlushLeavesBufferEmpty ==
    /\ last_flush.case # "none" => last_flush.after.heartbeat_buffer = << >>
    /\ \A out \in Outcomes : send_heartbeats(State, out).heartbeat_buffer = << >>

C4_Witness ==
    /\ last_flush.case = "invoked"
    /\ last_flush.out.raises = "Exception"
    /\ Len(last_flush.before.heartbeat_buffer) >= 2
    /\ last_flush.after.heartbeat_buffer = << >>

(* C5: every call of send_heartbeats that append_heartbeat makes in an     *)
(* initialized session (more than send_buffer_seconds after last_sent,     *)
(* with a non-empty buffer) returns with last_sent set to the current      *)
(* time.                                                                   *)
C5_FlushResetsTimer ==
    (last_flush.case # "none" /\ last_flush.before.initialized)
        => last_flush.after.last_sent = last_flush.after.clock

(* C6: a call of send_heartbeats whose first buffered heartbeat has        *)
(* duration 0 runs no command and empties the buffer, and no command ever  *)
(* carries a heartbeat that an earlier call took out of the buffer.        *)
C6_ZeroPrimaryDropsBatch ==
    /\ [](last_flush.case = "zero"
            => /\ last_flush.after.ran = last_flush.before.ran
               /\ last_flush.after.invocations = last_flush.before.invocations
               /\ last_flush.after.heartbeat_buffer = << >>)
    /\ [][\A i \in Len(invocations) + 1 .. Len(invocations') :
             Elements(invocations'[i]) \cap drained = {}]_vars

(* a dropped batch with a secondary of nonzero duration, after a command   *)
(* has run                                                                 *)
C6_Witness ==
    /\ last_flush.case = "zero"
    /\ \E i \in 2..Len(last_flush.before.heartbeat_buffer) :
          last_flush.before.heartbeat_buffer[i].duration # 0
    /\ invocations # << >>

(* C7: a call of send_heartbeats with a non-empty buffer and a delivery    *)
(* tool that is not found empties the buffer, runs no command, shows no    *)
(* dialog and leaves initialized and the files' records unchanged.         *)
C7_UnresolvableToolDiscardsSilently ==
    last_flush.case = "unresolvable"
        => /\ last_flush.before.heartbeat_buffer # << >>
           /\ last_flush.after.heartbeat_buffer = << >>
           /\ last_flush.after.ran = last_flush.before.ran
           /\ last_flush.after.invocations = last_flush.before.invocations
           /\ last_flush.after.dialogs = last_flush.before.dialogs
           /\ last_flush.after.initialized = last_flush.before.initialized
           /\ last_flush.after.last_heartbeat = last_flush.before.last_heartbeat

C7_Witness ==
    /\ last_flush.case = "unresolvable"
    /\ Len(last_flush.before.heartbeat_buffer) = 3
    /\ last_flush.before.initialized

(* C8: while the session is de-initialized (by exit code 104) and is not   *)
(* initialized again, no step emits a heartbeat or changes the buffer or   *)
(* a file's record.                                                        *)
C8_NoEmissionWhileDeinitialized ==
    [][(/\ ~initialized
        /\ api_key # ""
        /\ ~initialized'
        /\ "Invalid API Key" \notin Elements(dialogs'))
       => (/\ emitted' = emitted
           /\ heartbeat_buffer' = heartbeat_buffer
           /\ last_heartbeat' = last_heartbeat)]_vars

(* C9: no heartbeat in the buffer was taken out of it by an earlier call   *)
(* of send_heartbeats, a call of send_heartbeats runs at most one command, *)
(* and no heartbeat is carried by two commands.                            *)
C9_NoRetryNoRequeue ==
    /\ Elements(Ids(heartbeat_buffer)) \cap drained = {}
    /\ last_flush.case # "none"
         => /\ last_flush.after.ran - last_flush.before.ran \in {0, 1}
            /\ last_flush.after.invocations - last_flush.before.invocations \in {0, 1}
    /\ LET all == Flatten(invocations)
       IN  \A i, j \in 1..Len(all) : i # j => all[i] # all[j]

(* two commands have run, and a heartbeat was dropped without one *)
C9_Witness ==
    /\ Len(invocations) >= 2
    /\ drained \ Elements(Flatten(invocations)) # {}

(* C10: the command a call of send_heartbeats runs has the first buffered  *)
(* heartbeat, the oldest, as primary, and --extra-heartbeats, present iff  *)
(* more heartbeats are buffered, lists the others once each in buffer      *)
(* order.                                                                  *)
C10_PrimaryOldestExtrasInOrder ==
    last_flush.case = "invoked"
        => LET B == last_flush.before.heartbeat_buffer
               cmd == ran[Len(ran)]
           IN  /\ last_flush.after.ran = last_flush.before.ran + 1
               /\ \A i, j \in 1..Len(B) : i < j => B[i].id < B[j].id
               /\ cmd.entity = B[1].entity
               /\ cmd.time = B[1].time
               /\ cmd.write = B[1].is_write
               /\ cmd.duration = <<"--duration", str(B[1].duration)>>
               /\ invocations[Len(invocations)] = Ids(B)
               /\ (cmd.extra_heartbeats # << >>) <=> (Len(B) > 1)
               /\ Len(B) > 1
                    => /\ cmd.extra_heartbeats[1] = "--extra-heartbeats"
                       /\ Len(cmd.extra_heartbeats[2]) = Len(B) - 1
                       /\ \A i \in 1..(Len(B) - 1) :
                            LET x == cmd.extra_heartbeats[2][i]
                            IN  /\ x.entity = B[i + 1].entity
                                /\ x.timestamp = float(B[i + 1].time)
                                /\ x.is_write = B[i + 1].is_write
                                /\ x.duration = B[i + 1].duration

C10_Witness ==
    /\ last_flush.case = "invoked"
    /\ Len(last_flush.before.heartbeat_buffer) >= 2
    /\ ran # << >>
    /\ Len(ran[Len(ran)].extra_heartbeats) = 2

(* C11: in every reachable state of an initialized session a modify event *)
(* on a tracked file sets the file's last_activity_at to the event time    *)
(* and leaves the file's last_heartbeat_at, the other files' records, the  *)
(* buffer, last_sent and initialized unchanged; it emits nothing, calls    *)
(* send_heartbeats not at all, and a save that follows it emits a          *)
(* heartbeat whose duration is the time since the file's previous          *)
(* heartbeat.                                                              *)
C11_ModifyRecordsActivityOnly ==
    \A view \in TrackedFiles :
        initialized =>
            \A T \in {on_modified(Entry, view)} :
                /\ view \in DOMAIN T.last_heartbeat
                /\ T.last_heartbeat[view].last_activity_at = clock
                /\ get_last_heartbeat(T, view).last_heartbeat_at
                     = get_last_heartbeat(State, view).last_heartbeat_at
                /\ \A f \in TrackedFiles \ {view} :
                     /\ f \in DOMAIN T.last_heartbeat <=> f \in DOMAIN last_heartbeat
                     /\ f \in DOMAIN last_heartbeat
                          => T.last_heartbeat[f] = last_heartbeat[f]
                /\ T.heartbeat_buffer = heartbeat_buffer
                /\ T.last_sent = last_sent
                /\ T.initialized
                /\ T.emitted = emitted
                /\ T.last_flush = NoFlush
                /\ T.ran = << >>
                /\ T.invocations = invocations
                /\ T.drained = drained
                /\ emitted[view].count > 0
                     => \A d \in Deltas :
                        \A out \in OutcomesFor(tick(T, d), view, TRUE) :
                        \A B \in {AppendedBy(on_text_command(tick(T, d), view,
                                                             "save", out))} :
                            B[Len(B)].duration = clock + d - emitted[view].time

(* a modify event after the file's heartbeat, handled while a flush was    *)
(* due                                                                     *)
C11_Witness ==
    \E f \in TrackedFiles :
        /\ emitted[f].count >= 1
        /\ f \in DOMAIN last_heartbeat
        /\ last_heartbeat[f].last_activity_at = clock
        /\ last_heartbeat[f].last_heartbeat_at < clock
        /\ heartbeat_buffer # << >>
        /\ clock - last_sent > send_buffer_seconds

C13_FirstEventEmitsDebouncedDoesNot ==
    \A view \in TrackedFiles, out \in Outcomes :
        initialized =>
            \A T \in {on_load(Entry, view, out), on_activated(Entry, view, out)} :
                /\ emitted[view].count = 0 => T.emitted[view].count = 1
                /\ (emitted[view].count > 0 /\ clock - emitted[view].time <= Debounce)
                     => /\ T.emitted = emitted
                        /\ T.last_heartbeat = last_heartbeat

(* The answers of the environment that a call of append_heartbeat in the  *)
(* current state can meet: all of them when it calls send_heartbeats.      *)
Answers(view, is_write) ==
    IF Flushes(Entry, view, is_write) THEN Outcomes ELSE {NotFound}

(* C14: send_heartbeats is called only with a non-empty buffer and more    *)
(* than send_buffer_seconds after last_sent; a call of append_heartbeat    *)
(* for which either fails leaves what is buffered in place and runs no     *)
(* command.                                                                *)
C14_FlushOnlyWhenDue ==
    /\ last_flush.case # "none"
         => /\ last_flush.before.heartbeat_buffer # << >>
            /\ last_flush.before.clock - last_flush.before.last_sent
                 > send_buffer_seconds
    /\ \A view \in Files, is_write \in BOOLEAN :
       \A out \in Answers(view, is_write) :
       \A T \in {append_heartbeat(Entry, view, is_write, out)} :
         LET due == /\ AppendedBy(T) # << >>
                    /\ clock - last_sent > send_buffer_seconds
         IN  ~due => /\ T.last_flush = NoFlush
                     /\ Len(T.heartbeat_buffer) >= Len(heartbeat_buffer)
                     /\ SubSeq(T.heartbeat_buffer, 1, Len(heartbeat_buffer))
                          = heartbeat_buffer
                     /\ T.ran = << >>
                     /\ T.invocations = invocations
                     /\ T.drained = drained

(* a heartbeat appended exactly send_buffer_seconds after last_sent, and   *)
(* left in the buffer                                                      *)
C14_Witness ==
    /\ \E f \in TrackedFiles : emitted[f].count > 0 /\ emitted[f].time = clock
    /\ clock - last_sent = send_buffer_seconds
    /\ heartbeat_buffer # << >>
    /\ last_flush = NoFlush

(* C15: an open or activate event handled more than send_buffer_seconds   *)
(* after last_sent that leaves the buffer empty sets last_sent to the      *)
(* current time, and a save that follows at once is not flushed.           *)
C15_EmptyCheckResetsTimer ==
    \A view \in TrackedFiles, out \in Outcomes :
        (initialized /\ heartbeat_buffer = << >>
         /\ clock - last_sent > send_buffer_seconds)
            => LET T == on_activated(Entry, view, out)
                   U == on_text_command([T EXCEPT !.last_flush = NoFlush], view,
                                        "save", out)
               IN  AppendedBy(T) = << >>
                     => /\ T.last_sent = clock
                        /\ U.last_flush = NoFlush

(* C16: in an initialized session, from the time the buffer is non-empty  *)
(* and more than send_buffer_seconds (and no more than twice that) have    *)
(* passed since last_sent, the buffer is eventually emptied, also when no  *)
(* open, activate or save event follows.                                   *)
C16_BufferEventuallyDrained ==
    (/\ initialized
     /\ heartbeat_buffer # << >>
     /\ clock - last_sent > send_buffer_seconds
     /\ clock - last_sent <= 2 * send_buffer_seconds)
        ~> (heartbeat_buffer = << >>)

(* C17: in every reachable state an open, activate, modify or save event  *)
(* on a view whose file name is empty or ignored changes nothing: records, *)
(* buffer, last_sent and initialized are as before, no heartbeat is        *)
(* emitted, send_heartbeats is not called, no command runs.                *)
C17_IgnoredFileIsNoOp ==
    \A view \in IgnoredFiles :
      \A out \in OutcomesFor(Entry, view, FALSE) \cup OutcomesFor(Entry, view, TRUE) :
        \A T \in {on_load(Entry, view, out), on_activated(Entry, view, out),
                  on_modified(Entry, view),
                  on_text_command(Entry, view, "save", out)} :
            /\ T.last_heartbeat = last_heartbeat
            /\ T.heartbeat_buffer = heartbeat_buffer
            /\ T.last_sent = last_sent
            /\ T.initialized = initialized
            /\ T.emitted = emitted
            /\ T.last_flush = NoFlush
            /\ T.ran = << >>
            /\ T.dialogs = << >>
            /\ T.invocations = invocations
            /\ T.drained = drained

(* an initialized session with two heartbeats buffered and a flush due *)
C17_Witness ==
    /\ initialized
    /\ Len(heartbeat_buffer) >= 2
    /\ clock - last_sent > send_buffer_seconds

(* C18: a call of send_heartbeats changes initialized only from true to    *)
(* false and only when the tool ran and returned 104, which it then does;  *)
(* exit code 103, the other exit codes and the exceptions of the run leave *)
(* it unchanged; no call changes a file's record.                          *)
C18_OnlyApiKeyErrorDeinitializes ==
    /\ last_flush.case # "none"
         => /\ last_flush.after.last_heartbeat = last_flush.before.last_heartbeat
            /\ last_flush.after.initialized # last_flush.before.initialized
                 => /\ last_flush.before.initialized
                    /\ last_flush.case = "invoked"
                    /\ last_flush.out.raises = ""
                    /\ last_flush.out.returncode = EXIT_CODE_API_KEY_ERROR
    /\ \A out \in Outcomes :
       \A T \in {send_heartbeats(State, out)} :
         LET api_key_error == /\ flush_case(State, out) = "invoked"
                              /\ out.raises = ""
                              /\ out.returncode = EXIT_CODE_API_KEY_ERROR
         IN  /\ T.last_heartbeat = last_heartbeat
             /\ api_key_error => ~T.initialized
             /\ ~api_key_error => T.initialized = initialized

(* the tool returned 103 and the session is still initialized *)
C18_Witness ==
    /\ last_flush.case = "invoked"
    /\ last_flush.out.returncode = EXIT_CODE_CONFIG_PARSE_ERROR
    /\ last_flush.before.initialized
    /\ initialized

(* C19: every record has last_activity_at >= last_heartbeat_at, and the   *)
(* last_heartbeat_at of a file with an emitted heartbeat is the time of    *)
(* the latest heartbeat emitted for it; the last_heartbeat_at a file reads *)
(* as never decreases and changes only in a step that emits a heartbeat    *)
(* for the file.                                                           *)
HeartbeatAt(f) ==
    IF f \in DOMAIN last_heartbeat THEN last_heartbeat[f].last_heartbeat_at ELSE 0

C19_RecordsFollowHeartbeats ==
    /\ [](\A f \in DOMAIN last_heartbeat :
            /\ last_heartbeat[f].last_activity_at >= last_heartbeat[f].last_heartbeat_at
            /\ emitted[f].count > 0
                 => last_heartbeat[f].last_heartbeat_at = emitted[f].time)
    /\ [][\A f \in TrackedFiles :
             /\ HeartbeatAt(f)' >= HeartbeatAt(f)
             /\ HeartbeatAt(f)' # HeartbeatAt(f)
                  => emitted'[f].count > emitted[f].count]_vars

(* a file modified after its second heartbeat *)
C19_Witness ==
    \E f \in DOMAIN last_heartbeat :
        /\ emitted[f].count >= 2
        /\ last_heartbeat[f].last_heartbeat_at > 0
        /\ last_heartbeat[f].last_activity_at > last_heartbeat[f].last_heartbeat_at

(* C20: a call of append_heartbeat that emits a heartbeat and calls        *)
(* send_heartbeats hands it the buffer with the new heartbeat last, after  *)
(* what was buffered, and returns with the buffer empty and the heartbeat  *)
(* taken out; every command that runs has a primary of nonzero duration;   *)
(* a heartbeat of duration 0 emitted into an empty buffer by such a call   *)
(* is dropped by it and no command runs.                                   *)
C20_AppendBeforeFlush ==
    /\ \A i \in 1..Len(ran) :
         /\ Len(ran[i].duration) = 2
         /\ float(ran[i].duration[2]) # 0
    /\ \A view \in TrackedFiles, is_write \in BOOLEAN :
       \A out \in Answers(view, is_write) :
       \A T \in {append_heartbeat(Entry, view, is_write, out)} :
         (T.emitted # emitted /\ T.last_flush # NoFlush)
               => \A B \in {T.last_flush.before.heartbeat_buffer},
                     id \in {emitted_count(State) + 1} :
                  /\ Len(B) = Len(heartbeat_buffer) + 1
                  /\ SubSeq(B, 1, Len(heartbeat_buffer)) = heartbeat_buffer
                  /\ B[Len(B)].id = id
                  /\ B[Len(B)].entity = view
                  /\ B[Len(B)].time = str(clock)
                  /\ T.heartbeat_buffer = << >>
                  /\ id \in T.drained
                  /\ T.last_flush.case = "invoked"
                       => /\ Len(T.ran) = 1
                          /\ T.invocations[Len(T.invocations)] = Ids(B)
                  /\ (heartbeat_buffer = << >> /\ B[1].duration = 0)
                       => /\ T.ran = << >>
                          /\ T.invocations = invocations

(* the first heartbeat of a file, emitted into an empty buffer and dropped *)
(* by the same event                                                       *)
C20_Witness ==
    /\ last_flush.case = "zero"
    /\ Len(last_flush.before.heartbeat_buffer) = 1
    /\ last_flush.before.heartbeat_buffer[1].time = str(clock)
    /\ last_flush.before.heartbeat_buffer[1].duration = 0
    /\ emitted[last_flush.before.heartbeat_buffer[1].entity]
         = [count |-> 1, time |-> clock]
    /\ heartbeat_buffer = << >>
    /\ invocations = << >>

====
